---- MODULE Spec2Model ----
(***************************************************************************)
(* Model of the pipeline orchestrator of autoreeler (src/main.py):         *)
(* CoupangVideoAutomation.process_coupang_link, _compose_final_video and   *)
(* _upload_to_social_media.  One run of process_coupang_link is a state    *)
(* machine with one action per stage call; the collaborators' outcomes     *)
(* (a value, None, or a raised Exception) are the inputs of the actions.   *)
(* Python strings that are not ASCII are written in English; the original  *)
(* text is at the source line named beside each of them.                   *)
(***************************************************************************)
EXTENDS Integers, Sequences, FiniteSets, TLC

(* ------------------------------ bounds -------------------------------- *)

\* Durations of the audio and video artifacts range over 0..MaxDur.
MaxDur == 3

(* ------------------------------ values -------------------------------- *)

\* Python's None.
NULL == "None"

\* The empty dict {}: not None, but falsy.
EMPTY_DICT == "{}"

\* `if not x:` (main.py:58,65,75,92,101) and `if x` (main.py:141,156).
Truthy(v) == v \notin {NULL, EMPTY_DICT, ""}

\* What extract_product_info returns on success: a dict with all eight keys.
ProductInfos == {"product_info"}

\* What generate_video_script can return when it does not return None: the
\* dict json.loads built from the model's answer (gemini_handler.py:84), which
\* may lack keys or be empty, or the fallback dict (gemini_handler.py:94-102).
ScriptDatas == {"script_data", "script_data_no_script",
                "script_data_no_description", "script_data_no_title", EMPTY_DICT}

\* The keys of a script_data value that the orchestrator subscripts.
Keys(script_data) ==
    CASE script_data = "script_data"                -> {"script", "description", "title"}
      [] script_data = "script_data_no_script"      -> {"description", "title"}
      [] script_data = "script_data_no_description" -> {"script", "title"}
      [] script_data = "script_data_no_title"       -> {"script", "description"}
      [] OTHER                                      -> {}

AudioPaths == {"output/audio/speech.mp3"}
SubtitlePaths == {"output/subtitles/subs.srt"}
VideoPaths == {"output/videos/final_video.mp4"}
FinalPath == "output/videos/final.mp4"
InstagramIds == {"ig_media_id"}
YouTubeIds == {"yt_video_id"}
Durations == 0..MaxDur

\* time.time() at main.py:117,128: the result's timestamp.
TIMESTAMP == "time.time()"

(* ------------------------------ errors -------------------------------- *)

NoError == [cls |-> "", msg |-> ""]

\* Exceptions a collaborator may raise: subclasses of Exception.
CollaboratorErrors == {[cls |-> "ConnectionError", msg |-> "connection timed out"],
                       [cls |-> "ValueError", msg |-> "bad value"]}

\* d[key] on a dict without the key: KeyError(key), whose str() is the quoted key.
KeyErrorOf(key) == [cls |-> "KeyError", msg |-> "'" \o key \o "'"]

\* os is not imported in main.py (lines 2-12), so evaluating os.path.exists
\* (main.py:156) raises NameError.
OsImported == FALSE
NameErrorOs == [cls |-> "NameError", msg |-> "name 'os' is not defined"]

\* Raised by moviepy inside _compose_final_video.
ComposeError == [cls |-> "OSError", msg |-> "moviepy failed"]

\* The classes `except Exception` (main.py:123,177,212) catches.
ExceptionSubclasses == {"Exception", "ConnectionError", "ValueError", "KeyError",
                        "NameError", "OSError"}

\* Mutant: the handler is `except ValueError`.
CatchesNarrow(e) == e.cls = "ValueError"

Catches(e) == e.cls \in ExceptionSubclasses

\* str(e)
Str(e) == e.msg

\* The outcome of one collaborator call.
Ok(v) == [kind |-> "ok", val |-> v, err |-> NoError]
ReturnsNone == [kind |-> "null", val |-> NULL, err |-> NoError]
Raises(e) == [kind |-> "raise", val |-> NULL, err |-> e]
Outcomes(values) == {Ok(v) : v \in values} \cup {ReturnsNone}
                      \cup {Raises(e) : e \in CollaboratorErrors}

(* ------------------------- the orchestrator --------------------------- *)

\* Mutant: the video stage is called before the subtitle stage.
StageOrderVideoFirst ==
    <<"extract", "script", "speech", "video", "subtitles", "composite", "publish">>

\* The stages of process_coupang_link in the order of their calls
\* (main.py:56, 63, 70, 80, 87, 97, 106).
StageOrder == <<"extract", "script", "speech", "subtitles", "video", "composite", "publish">>

StageNames == {StageOrder[i] : i \in 1..Len(StageOrder)}

IndexOf(stage) == CHOOSE i \in 1..Len(StageOrder) : StageOrder[i] = stage

\* The statement that follows a stage's call and check.
NextStage(stage) ==
    IF IndexOf(stage) < Len(StageOrder) THEN StageOrder[IndexOf(stage) + 1] ELSE "done"

\* Mutant: the test after the video stage is missing.
NullCheckedWithoutVideo == {"extract", "script", "speech", "composite"}

\* Mutant: the test after _compose_final_video is missing.
NullCheckedWithoutComposite == {"extract", "script", "speech", "video"}

\* The stages whose result is tested with `if not x: raise Exception(...)`
\* (main.py:58, 65, 75, 92, 101).  The subtitle stage has no such test.
NullChecked == {"extract", "script", "speech", "video", "composite"}

\* Mutant: the video stage raises with the text of the speech stage.
NullMessageCopied(stage) ==
    CASE stage = "extract"   -> "product info extraction failed"
      [] stage = "script"    -> "script generation failed"
      [] stage = "speech"    -> "speech generation failed"
      [] stage = "video"     -> "speech generation failed"
      [] stage = "composite" -> "video composition failed"

\* The text of the Exception raised on a falsy result (main.py:59, 66, 76, 93, 102).
NullMessage(stage) ==
    CASE stage = "extract"   -> "product info extraction failed"
      [] stage = "script"    -> "script generation failed"
      [] stage = "speech"    -> "speech generation failed"
      [] stage = "video"     -> "video generation failed"
      [] stage = "composite" -> "video composition failed"

NullException(stage) == [cls |-> "Exception", msg |-> NullMessage(stage)]

\* Mutant: the failure dict also carries the success dict's video_path key.
FailureResultWithPath(e) ==
    [success |-> FALSE, error |-> Str(e), video_path |-> NULL,
     processing_time |-> TIMESTAMP]

\* The dict returned by the except branch (main.py:125-129).
FailureResult(e) ==
    [success |-> FALSE, error |-> Str(e), processing_time |-> TIMESTAMP]

\* Mutant: success is reported only if every upload entry is successful.
SuccessResultAllUploads(pi, sd, fv, ur) ==
    [success |-> \A t \in DOMAIN ur \cap {"instagram", "youtube"} : ur[t].success,
     product_info |-> pi, script_data |-> sd, video_path |-> fv,
     upload_results |-> ur, processing_time |-> TIMESTAMP]

\* The dict returned on success (main.py:111-118).
SuccessResult(pi, sd, fv, ur) ==
    [success |-> TRUE, product_info |-> pi, script_data |-> sd, video_path |-> fv,
     upload_results |-> ur, processing_time |-> TIMESTAMP]

\* A dict with no key: the value of `result` before the run returns.
NoResult == <<>>

NoFailure == [stage |-> "none", mode |-> "none"]

VARIABLES
    pc,               \* the stage process_coupang_link is about to execute
    product_info, script_data, audio_path, subtitle_path, video_path,
    final_video_path, upload_results,      \* the locals of process_coupang_link
    audio_duration, video_duration,        \* the durations of the artifact files
    comp,             \* what _compose_final_video did
    result,           \* the dict process_coupang_link returned
    propagated,       \* the exception that left process_coupang_link, if any
    calls,            \* the stages invoked so far, in order
    outcome,          \* how each invoked stage ended: "ok", "null" or "raise"
    failed,           \* the stage whose failure ended the run, and how
    log               \* the lines the orchestrator has logged, in order

vars == <<pc, product_info, script_data, audio_path, subtitle_path, video_path,
          final_video_path, upload_results, audio_duration, video_duration, comp,
          result, propagated, calls, outcome, failed, log>>

(* ---------------- asynchronous jobs: state and constants --------------- *)

\* time.sleep(10) between two status queries (instagram_uploader.py:122, 126;
\* video_generator.py:200, 204).
POLL_INTERVAL == 10

\* max_wait: int = 300 (instagram_uploader.py:97, video_generator.py:178).
DEFAULT_MAX_WAIT == 300

\* A poller called on its own is given a max_wait in 0..MaxWaitParam.
MaxWaitParam == 25

\* A status query (requests.get) takes 0..MaxLatency seconds.
MaxLatency == 1

VARIABLES
    entry,         \* the function that was called: "upload_video" or "poll"
    job,           \* the poller: "instagram" (_wait_for_upload_completion) or
                   \* "runway" (_wait_for_video_completion)
    jpc,           \* where the call is: "create", "wait", "poll", "publish", "returned"
    max_wait,      \* the poller's max_wait argument
    elapsed,       \* time.time() - start_time
    queries,       \* status queries made so far
    sleeps,        \* time.sleep(10) calls made so far
    n_pending,     \* queries answered with a status that is neither final one
    n_failed,      \* queries that raised or were answered with an HTTP error
    last_answer,   \* the answer to the latest query
    poll_ret,      \* the poller's return value
    poll_reason,   \* why the poller returned: "finished", "error" or "timeout"
    container_id, media_id,   \* the locals of upload_video
    upload_ret,    \* the return value of upload_video
    up_calls       \* the steps upload_video has started, in order

jobvars == <<entry, job, jpc, max_wait, elapsed, queries, sleeps, n_pending,
             n_failed, last_answer, poll_ret, poll_reason, container_id,
             media_id, upload_ret, up_calls>>

(* ------------------- YouTubeUploader.upload_video: state --------------- *)

\* next_chunk calls that report progress without a response: at most MaxChunks.
MaxChunks == 15

VARIABLES
    ypc,              \* where upload_video is: "upload", "chunk", "respond", "returned"
    youtube_service,  \* self.youtube_service
    retry,            \* the local `retry` of _execute_upload
    chunks,           \* next_chunk calls that returned without a response
    response,         \* the local `response` of _execute_upload
    yt_error,         \* the local `error` of _execute_upload
    yt_failures,      \* next_chunk calls that raised
    yt_waits,         \* the arguments of the time.sleep calls made, in order
    yt_caught,        \* the exception the handler at 135 or 100 caught
    video_id          \* the return value of upload_video

ytvars == <<ypc, youtube_service, retry, chunks, response, yt_error,
            yt_failures, yt_waits, yt_caught, video_id>>

\* `response = None` and a response dict.
NoResponse == [none |-> TRUE, body |-> <<>>]
Response(d) == [none |-> FALSE, body |-> d]

\* upload_video of the YouTube uploader has not been called.
YouTubeIdle ==
    /\ ypc = "idle"
    /\ youtube_service = NULL
    /\ retry = 0
    /\ chunks = 0
    /\ response = NoResponse
    /\ yt_error = NoError
    /\ yt_failures = 0
    /\ yt_waits = <<>>
    /\ yt_caught = NoError
    /\ video_id = NULL

(* --------------- VideoGenerator.generate_video_from_script: state ------ *)

\* A script has at most MaxScenes scenes.
MaxScenes == 2

\* Producing one clip file takes 0..MaxTick seconds of the clock.
MaxTick == 1

VARIABLES
    gpc,             \* where generate_video_from_script is: "scene", "returned"
    scenes,          \* script_data.get('video_scenes', [])
    product_images,  \* len(product_images)
    runway_api_key,  \* whether self.runway_api_key is set
    veo_api_key,     \* whether self.veo_api_key is set
    scene_idx,       \* scenes the loop has gone through
    now,             \* int(time.time())
    written,         \* the files written so far, in order: path and writer
    video_clips,     \* the local video_clips: the paths of the clips opened
    scene_log,       \* per scene: what the remote job did, whether the default
                     \* clip was tried, the path the scene yielded
    gen_caught,      \* the exception caught at video_generator.py:62
    gen_ret          \* the return value of generate_video_from_script

genvars == <<gpc, scenes, product_images, runway_api_key, veo_api_key,
             scene_idx, now, written, video_clips, scene_log, gen_caught,
             gen_ret>>

\* None where a path is expected.
NoPath == <<>>

\* generate_video_from_script has not been called.
GenIdle ==
    /\ gpc = "idle"
    /\ scenes = <<>>
    /\ product_images = 0
    /\ runway_api_key = FALSE
    /\ veo_api_key = FALSE
    /\ scene_idx = 0
    /\ now = 0
    /\ written = <<>>
    /\ video_clips = <<>>
    /\ scene_log = <<>>
    /\ gen_caught = NoError
    /\ gen_ret = NoPath

(* ------------------- concurrent pipeline runs: state ------------------- *)

\* The runs that execute at the same time.
Runs == {1, 2}

\* The clock goes through the seconds 0..MaxClock.
MaxClock == 2

VARIABLES
    clock,       \* int(time.time()), shared by the runs
    rpc,         \* per run: the stage it is at
    r_subtitle,  \* per run: whether its subtitle_path is set
    artifacts    \* the files written: path, run, stage

namevars == <<clock, rpc, r_subtitle, artifacts>>

\* No concurrent runs.
NamesIdle ==
    /\ clock = 0
    /\ rpc = [r \in Runs |-> "idle"]
    /\ r_subtitle = [r \in Runs |-> FALSE]
    /\ artifacts = {}

(* ------------------- a collaborator's boundary: state ------------------ *)

VARIABLES
    collab,      \* the collaborator method that was called
    fault_at,    \* the step of its body at which an error occurs, 0 for none
    fault_err,   \* that error
    bstep,       \* the steps of the body that have completed
    bpc,         \* "running", "returned" or "raised"
    bret,        \* what the method returned
    bcaught,     \* the exception its handler caught
    braised      \* the exception that left the method

bndvars == <<collab, fault_at, fault_err, bstep, bpc, bret, bcaught, braised>>

\* No collaborator was called on its own.
BoundaryIdle ==
    /\ collab = "none"
    /\ fault_at = 0
    /\ fault_err = NoError
    /\ bstep = 0
    /\ bpc = "idle"
    /\ bret = NULL
    /\ bcaught = NoError
    /\ braised = NoError

(* ------------------------------ main(): state -------------------------- *)

\* The line typed at the prompt has at most MaxUrlLen characters.
MaxUrlLen == 3

VARIABLES
    mpc,          \* where main() is: "construct", "input", "process", "report",
                  \* "returned", "crashed"
    env_keys,     \* the API keys that are set in the environment
    typed,        \* the line input() returns
    coupang_url,  \* the local coupang_url
    processed,    \* calls of process_coupang_link made
    m_result,     \* the local result
    printed,      \* the lines printed, in order
    m_caught,     \* the exception a handler of main() caught
    m_raised      \* the exception that left main()

mainvars == <<mpc, env_keys, typed, coupang_url, processed, m_result, printed,
              m_caught, m_raised>>

\* main() has not been called.
MainIdle ==
    /\ mpc = "idle"
    /\ env_keys = {}
    /\ typed = <<>>
    /\ coupang_url = <<>>
    /\ processed = 0
    /\ m_result = <<>>
    /\ printed = <<>>
    /\ m_caught = NoError
    /\ m_raised = NoError

(* ------------------------- all the variables --------------------------- *)

allvars == <<vars, jobvars, ytvars, genvars, namevars, bndvars, mainvars>>

\* The variables each part of the program leaves alone.
offRun == <<jobvars, ytvars, genvars, namevars, bndvars, mainvars>>
offJobs == <<vars, ytvars, genvars, namevars, bndvars, mainvars>>
offYouTube == <<vars, jobvars, genvars, namevars, bndvars, mainvars>>
offGen == <<vars, jobvars, ytvars, namevars, bndvars, mainvars>>
offNames == <<vars, jobvars, ytvars, genvars, bndvars, mainvars>>
offBoundary == <<vars, jobvars, ytvars, genvars, namevars, mainvars>>
offMain == <<vars, jobvars, ytvars, genvars, namevars, bndvars>>

\* No upload and no poller has been called.
JobIdle ==
    /\ entry = "none"
    /\ job = "none"
    /\ jpc = "idle"
    /\ max_wait = DEFAULT_MAX_WAIT
    /\ elapsed = 0
    /\ queries = 0
    /\ sleeps = 0
    /\ n_pending = 0
    /\ n_failed = 0
    /\ last_answer = "none"
    /\ poll_ret = NULL
    /\ poll_reason = "none"
    /\ container_id = NULL
    /\ media_id = NULL
    /\ upload_ret = NULL
    /\ up_calls = <<>>

(* ------------------------- _compose_final_video ------------------------ *)

\* Clip.subclip(t_start, t_end) of moviepy, as called at main.py:148 and 151
\* with 0 <= t_end <= the clip's duration: the new clip's duration is
\* t_end - t_start.
Subclip(duration, t_start, t_end) == t_end - t_start

\* Mutant: only a longer audio is cut; a longer video is left as it is.
ReconcileAudioOnly(Da, Dv) ==
    IF Da > Dv
    THEN [audio |-> Subclip(Da, 0, Dv), video |-> Dv,
          audio_trimmed |-> TRUE, video_trimmed |-> FALSE]
    ELSE [audio |-> Da, video |-> Dv,
          audio_trimmed |-> FALSE, video_trimmed |-> FALSE]

\* Mutant: the comparison is reversed, so the shorter artifact is the one cut.
ReconcileSwapped(Da, Dv) ==
    IF Da # Dv
    THEN IF Da < Dv
         THEN [audio |-> Subclip(Da, 0, Dv), video |-> Dv,
               audio_trimmed |-> TRUE, video_trimmed |-> FALSE]
         ELSE [audio |-> Da, video |-> Subclip(Dv, 0, Da),
               audio_trimmed |-> FALSE, video_trimmed |-> TRUE]
    ELSE [audio |-> Da, video |-> Dv,
          audio_trimmed |-> FALSE, video_trimmed |-> FALSE]

\* The duration reconciliation of main.py:146-151 for an audio clip of
\* duration Da and a video clip of duration Dv.
Reconcile(Da, Dv) ==
    IF Da # Dv
    THEN IF Da > Dv
         THEN [audio |-> Subclip(Da, 0, Dv), video |-> Dv,
               audio_trimmed |-> TRUE, video_trimmed |-> FALSE]
         ELSE [audio |-> Da, video |-> Subclip(Dv, 0, Da),
               audio_trimmed |-> FALSE, video_trimmed |-> TRUE]
    ELSE [audio |-> Da, video |-> Dv,
          audio_trimmed |-> FALSE, video_trimmed |-> FALSE]

\* Where moviepy or the subtitle overlay can raise inside _compose_final_video:
\* the import (135), VideoFileClip (138), AudioFileClip (143),
\* add_subtitles_to_video (157), write_videofile (163); or nowhere.
ComposeFaults == {"none", "import", "load_video", "load_audio", "overlay", "write"}

\* The value of comp before _compose_final_video has run.
NoComp ==
    [ran |-> FALSE, ret |-> NULL, error |-> NoError, reconciled |-> FALSE,
     audio |-> 0, video |-> 0, audio_trimmed |-> FALSE, video_trimmed |-> FALSE,
     subtitled |-> FALSE, opened |-> {}, closed |-> {}, written |-> FALSE,
     fault |-> "none", exists |-> FALSE]

\* Mutant: the except branch returns the output path it had computed.
ComposeExceptReturnsPath(e, opened, base) ==
    [base EXCEPT !.ret = FinalPath, !.error = e, !.opened = opened]

\* The except branch of _compose_final_video (main.py:177-179), entered with
\* exception e while the clips in `opened` are open: the error is logged and
\* None is returned; nothing is closed.
ComposeExcept(e, opened, base) ==
    [base EXCEPT !.ret = NULL, !.error = e, !.opened = opened]

\* _compose_final_video(video_path, audio_path, subtitle_path) (main.py:131-179)
\* on a video file of duration Dv and an audio file of duration Da; `fault` is
\* the call that raises and `exists` the answer of os.path.exists(subtitle_path).
\* The except branch (177-179) returns None without closing anything.
ComposeFinalVideo(v_path, a_path, s_path, Dv, Da, fault, exists) ==
    LET caught(e, opened, base) == ComposeExcept(e, opened, base)
        s0  == [NoComp EXCEPT !.ran = TRUE, !.video = Dv,
                              !.fault = fault, !.exists = exists]
        rec == Reconcile(Da, Dv)
        \* after `if audio_path:` (141-153)
        s1  == IF Truthy(a_path)
               THEN [s0 EXCEPT !.reconciled = TRUE,
                               !.audio = rec.audio, !.video = rec.video,
                               !.audio_trimmed = rec.audio_trimmed,
                               !.video_trimmed = rec.video_trimmed,
                               !.opened = {"video", "audio"}]
               ELSE [s0 EXCEPT !.opened = {"video"}]
        \* after the subtitle overlay (156-159)
        s2  == [s1 EXCEPT !.subtitled = TRUE]
        \* after write_videofile and the two close() calls (162-173)
        done(s) == [s EXCEPT !.written = TRUE, !.closed = s.opened, !.ret = FinalPath]
        write(s) == IF fault = "write" THEN caught(ComposeError, s.opened, s)
                    ELSE done(s)
    IN  IF fault \in {"import", "load_video"} THEN caught(ComposeError, {}, s0)
        ELSE IF Truthy(a_path) /\ fault = "load_audio"
             THEN caught(ComposeError, {"video"}, s0)
        ELSE IF Truthy(s_path)
             THEN IF ~OsImported THEN caught(NameErrorOs, s1.opened, s1)
                  ELSE IF exists
                       THEN IF fault = "overlay"
                            THEN caught(ComposeError, s1.opened, s1)
                            ELSE write(s2)
                       ELSE write(s1)
        ELSE write(s1)

(* ------------------------ _upload_to_social_media ---------------------- *)

\* Mutant: an Instagram upload that returned None is tried a second time.
UploadToSocialMediaRetry(sd, ig, yt) ==
    LET err(e) == "error" :> Str(e)
        r1 == "instagram" :> [success |-> ig.val # NULL, media_id |-> ig.val]
        r2 == "youtube" :> [success |-> yt.val # NULL, video_id |-> yt.val]
        first == IF ig.kind = "null" THEN <<"instagram", "instagram">>
                 ELSE <<"instagram">>
    IN  IF "description" \notin Keys(sd)
        THEN [results |-> err(KeyErrorOf("description")), invoked |-> <<>>]
        ELSE IF ig.kind = "raise"
        THEN [results |-> err(ig.err), invoked |-> first]
        ELSE IF "title" \notin Keys(sd)
        THEN [results |-> r1 @@ err(KeyErrorOf("title")), invoked |-> first]
        ELSE IF yt.kind = "raise"
        THEN [results |-> r1 @@ err(yt.err), invoked |-> first \o <<"youtube">>]
        ELSE [results |-> r1 @@ r2, invoked |-> first \o <<"youtube">>]

\* _upload_to_social_media(video_path, script_data) (main.py:181-216), given
\* the outcomes ig and yt of the two upload_video calls: the results dict and
\* the collaborators that were invoked.  An exception anywhere in the try block
\* (a missing key of script_data included) skips the rest of it and sets
\* results['error'] (212-214).
UploadToSocialMedia(sd, ig, yt) ==
    LET err(e) == "error" :> Str(e)
        r1 == "instagram" :> [success |-> ig.val # NULL, media_id |-> ig.val]
        r2 == "youtube" :> [success |-> yt.val # NULL, video_id |-> yt.val]
    IN  IF "description" \notin Keys(sd)
        THEN [results |-> err(KeyErrorOf("description")), invoked |-> <<>>]
        ELSE IF ig.kind = "raise"
        THEN [results |-> err(ig.err), invoked |-> <<"instagram">>]
        ELSE IF "title" \notin Keys(sd)
        THEN [results |-> r1 @@ err(KeyErrorOf("title")), invoked |-> <<"instagram">>]
        ELSE IF yt.kind = "raise"
        THEN [results |-> r1 @@ err(yt.err), invoked |-> <<"instagram", "youtube">>]
        ELSE [results |-> r1 @@ r2, invoked |-> <<"instagram", "youtube">>]

(* ------------------------ process_coupang_link ------------------------- *)

Collaborators == StageNames \cup {"instagram", "youtube"}

\* process_coupang_link has been called and no stage has run.
InitRun ==
    /\ pc = "extract"
    /\ product_info = NULL
    /\ script_data = NULL
    /\ audio_path = NULL
    /\ subtitle_path = NULL
    /\ video_path = NULL
    /\ final_video_path = NULL
    /\ upload_results = NoResult
    /\ audio_duration = 0
    /\ video_duration = 0
    /\ comp = NoComp
    /\ result = NoResult
    /\ propagated = NoError
    /\ calls = <<>>
    /\ outcome = [c \in Collaborators |-> "none"]
    /\ failed = NoFailure
    /\ log = <<>>

\* The parts of the program that are not running.
OffRunIdle ==
    JobIdle /\ YouTubeIdle /\ GenIdle /\ NamesIdle /\ BoundaryIdle /\ MainIdle
OffJobsIdle ==
    InitRun /\ YouTubeIdle /\ GenIdle /\ NamesIdle /\ BoundaryIdle /\ MainIdle
OffYouTubeIdle ==
    InitRun /\ JobIdle /\ GenIdle /\ NamesIdle /\ BoundaryIdle /\ MainIdle
OffGenIdle ==
    InitRun /\ JobIdle /\ YouTubeIdle /\ NamesIdle /\ BoundaryIdle /\ MainIdle
OffNamesIdle ==
    InitRun /\ JobIdle /\ YouTubeIdle /\ GenIdle /\ BoundaryIdle /\ MainIdle
OffBoundaryIdle ==
    InitRun /\ JobIdle /\ YouTubeIdle /\ GenIdle /\ NamesIdle /\ MainIdle
OffMainIdle ==
    InitRun /\ JobIdle /\ YouTubeIdle /\ GenIdle /\ NamesIdle /\ BoundaryIdle

Init == InitRun /\ OffRunIdle

\* The values the state of a run takes.
TypeOK ==
    /\ pc \in StageNames \cup {"done", "raised"}
    /\ product_info \in ProductInfos \cup {NULL}
    /\ script_data \in ScriptDatas \cup {NULL}
    /\ audio_path \in AudioPaths \cup {NULL}
    /\ subtitle_path \in SubtitlePaths \cup {NULL}
    /\ video_path \in VideoPaths \cup {NULL}
    /\ final_video_path \in {FinalPath, NULL}
    /\ DOMAIN upload_results \subseteq {"instagram", "youtube", "error"}
    /\ audio_duration \in Durations
    /\ video_duration \in Durations
    /\ comp.ret \in {FinalPath, NULL}
    /\ comp.opened \subseteq {"video", "audio"} /\ comp.closed \subseteq comp.opened
    /\ DOMAIN result \subseteq {"success", "error", "product_info", "script_data",
                                "video_path", "upload_results", "processing_time"}
    /\ propagated \in CollaboratorErrors \cup {NoError, KeyErrorOf("script")}
    /\ \A i \in 1..Len(calls) : calls[i] \in Collaborators
    /\ \A c \in Collaborators : outcome[c] \in {"none", "ok", "null", "raise"}
    /\ failed.stage \in StageNames \cup {"none"}
    /\ failed.mode \in {"none", "null", "raise", "args"}
    /\ \A i \in 1..Len(log) :
         /\ log[i].level \in {"info", "error"}
         /\ log[i].by \in {"process_coupang_link", "_compose_final_video",
                           "_upload_to_social_media"}

\* self.logger.info(text) and self.logger.error(text) called in method `by`.
LogInfo(by, text) == [level |-> "info", by |-> by, text |-> text]
LogError(by, text) == [level |-> "error", by |-> by, text |-> text]

\* The line logged when the run starts (main.py:52).
RunStartLog == <<LogInfo("process_coupang_link", "processing started")>>

\* The text logged before each stage (main.py:55, 62, 69, 79, 86, 96, 105).
StageStartText(stage) ==
    CASE stage = "extract"   -> "1. extracting product info..."
      [] stage = "script"    -> "2. generating video script..."
      [] stage = "speech"    -> "3. generating AI speech..."
      [] stage = "subtitles" -> "4. generating subtitles..."
      [] stage = "video"     -> "5. generating AI video..."
      [] stage = "composite" -> "6. composing video..."
      [] stage = "publish"   -> "7. uploading to social media..."

StageStartLine(stage) == LogInfo("process_coupang_link", StageStartText(stage))

\* What is logged up to the call of the stage's collaborator.
StageStartLog(stage) ==
    (IF stage = "extract" THEN RunStartLog ELSE <<>>) \o <<StageStartLine(stage)>>

\* Mutant: the handler returns the failure dict without logging.
HandlerLogSilent(msg) == <<>>

\* The line the handler logs (main.py:124).
HandlerLog(msg) ==
    <<LogError("process_coupang_link", "error while processing: " \o msg)>>

\* The line _compose_final_video logs when it caught an exception (main.py:178).
ComposeLog(c) ==
    IF c.error # NoError
    THEN <<LogError("_compose_final_video", "composition failed: " \o Str(c.error))>>
    ELSE <<>>

\* The lines of _upload_to_social_media (main.py:188, 200, 213) and the last
\* line of a run (main.py:120).  The line of 200 is logged once the Instagram
\* entry has been stored.
PublishLog(results) ==
    <<LogInfo("_upload_to_social_media", "uploading to Instagram...")>>
      \o (IF "instagram" \in DOMAIN results
          THEN <<LogInfo("_upload_to_social_media", "uploading to YouTube...")>>
          ELSE <<>>)
      \o (IF "error" \in DOMAIN results
          THEN <<LogError("_upload_to_social_media",
                          "error during upload: " \o results["error"])>>
          ELSE <<>>)
      \o <<LogInfo("process_coupang_link", "all processing done!")>>

\* The lines a stage adds to the log: its start line, the lines `inside` of
\* the orchestrator's own helper, and the handler's line if the handler ran.
Logged(stage, inside) ==
    log' = log \o StageStartLog(stage) \o inside
               \o (IF pc' = "done" /\ failed' # failed
                   THEN HandlerLog(result'.error) ELSE <<>>)

\* An exception e raised inside the try block (main.py:51-121): the handler
\* of main.py:123-129 returns the failure dict if it catches e.
Except(stage, mode, e) ==
    /\ failed' = [stage |-> stage, mode |-> mode]
    /\ IF Catches(e)
       THEN /\ result' = FailureResult(e)
            /\ propagated' = NoError
            /\ pc' = "done"
       ELSE /\ result' = result
            /\ propagated' = e
            /\ pc' = "raised"

Continue(stage) ==
    /\ pc' = NextStage(stage)
    /\ UNCHANGED <<result, propagated, failed>>

\* The collaborator of `stage` is called and ends as o says.
Invoke(stage, o) ==
    /\ calls' = Append(calls, stage)
    /\ outcome' = [outcome EXCEPT ![stage] = o.kind]

\* Mutant: the result of every stage, the subtitle stage included, is tested.
CheckEveryStage(stage, o) ==
    IF o.kind = "raise" THEN Except(stage, "raise", o.err)
    ELSE IF ~Truthy(o.val)
         THEN Except(stage, "null",
                     [cls |-> "Exception", msg |-> stage \o " failed"])
         ELSE Continue(stage)

\* What follows the call of `stage`: the exception it raised reaches the
\* handler; a falsy result of a checked stage raises; otherwise the next stage.
Check(stage, o) ==
    IF o.kind = "raise" THEN Except(stage, "raise", o.err)
    ELSE IF stage \in NullChecked /\ ~Truthy(o.val)
         THEN Except(stage, "null", NullException(stage))
         ELSE Continue(stage)

\* main.py:54-59
Extract ==
    /\ pc = "extract"
    /\ UNCHANGED offRun
    /\ \E o \in Outcomes(ProductInfos) :
        /\ Invoke("extract", o)
        /\ product_info' = o.val
        /\ Check("extract", o)
        /\ Logged("extract", <<>>)
    /\ UNCHANGED <<script_data, audio_path, subtitle_path, video_path,
                   final_video_path, upload_results, audio_duration,
                   video_duration, comp>>

\* main.py:61-66
Script ==
    /\ pc = "script"
    /\ UNCHANGED offRun
    /\ \E o \in Outcomes(ScriptDatas) :
        /\ Invoke("script", o)
        /\ script_data' = o.val
        /\ Check("script", o)
        /\ Logged("script", <<>>)
    /\ UNCHANGED <<product_info, audio_path, subtitle_path, video_path,
                   final_video_path, upload_results, audio_duration,
                   video_duration, comp>>

\* main.py:68-76.  script_data['script'] is evaluated before generate_speech
\* is called: without that key the call is never made.
Speech ==
    /\ pc = "speech"
    /\ UNCHANGED offRun
    /\ IF "script" \notin Keys(script_data)
       THEN /\ Except("speech", "args", KeyErrorOf("script"))
            /\ Logged("speech", <<>>)
            /\ UNCHANGED <<calls, outcome, audio_path, audio_duration>>
       ELSE \E o \in Outcomes(AudioPaths), d \in Durations :
            /\ Invoke("speech", o)
            /\ audio_path' = o.val
            /\ audio_duration' = IF o.kind = "ok" THEN d ELSE audio_duration
            /\ Check("speech", o)
            /\ Logged("speech", <<>>)
    /\ UNCHANGED <<product_info, script_data, subtitle_path, video_path,
                   final_video_path, upload_results, video_duration, comp>>

\* main.py:78-83.  get_audio_duration (audio_generator.py:41-52) never raises
\* and changes nothing.  No test follows the call.
Subtitles ==
    /\ pc = "subtitles"
    /\ UNCHANGED offRun
    /\ \E o \in Outcomes(SubtitlePaths) :
        /\ Invoke("subtitles", o)
        /\ subtitle_path' = o.val
        /\ Check("subtitles", o)
        /\ Logged("subtitles", <<>>)
    /\ UNCHANGED <<product_info, script_data, audio_path, video_path,
                   final_video_path, upload_results, audio_duration,
                   video_duration, comp>>

\* main.py:85-93
Video ==
    /\ pc = "video"
    /\ UNCHANGED offRun
    /\ \E o \in Outcomes(VideoPaths), d \in Durations :
        /\ Invoke("video", o)
        /\ video_path' = o.val
        /\ video_duration' = IF o.kind = "ok" THEN d ELSE video_duration
        /\ Check("video", o)
        /\ Logged("video", <<>>)
    /\ UNCHANGED <<product_info, script_data, audio_path, subtitle_path,
                   final_video_path, upload_results, audio_duration, comp>>

\* main.py:95-102: _compose_final_video returns a path or None, never raises.
Composite ==
    /\ pc = "composite"
    /\ UNCHANGED offRun
    /\ \E fault \in ComposeFaults, exists \in BOOLEAN :
        LET c == ComposeFinalVideo(video_path, audio_path, subtitle_path,
                                   video_duration, audio_duration, fault, exists)
            o == IF c.ret = NULL THEN ReturnsNone ELSE Ok(c.ret)
        IN  /\ Invoke("composite", o)
            /\ comp' = c
            /\ final_video_path' = c.ret
            /\ Check("composite", o)
            /\ Logged("composite", ComposeLog(c))
    /\ UNCHANGED <<product_info, script_data, audio_path, subtitle_path,
                   video_path, upload_results, audio_duration, video_duration>>

\* main.py:104-121: _upload_to_social_media never raises, and the success
\* dict is returned whatever it returns.
Publish ==
    /\ pc = "publish"
    /\ UNCHANGED offRun
    /\ \E ig \in Outcomes(InstagramIds), yt \in Outcomes(YouTubeIds) :
        LET u == UploadToSocialMedia(script_data, ig, yt)
            invoked == {u.invoked[i] : i \in 1..Len(u.invoked)}
        IN  /\ calls' = Append(calls, "publish") \o u.invoked
            /\ outcome' = [outcome EXCEPT
                   !["publish"] = "ok",
                   !["instagram"] = IF "instagram" \in invoked THEN ig.kind ELSE "none",
                   !["youtube"] = IF "youtube" \in invoked THEN yt.kind ELSE "none"]
            /\ upload_results' = u.results
            /\ result' = SuccessResult(product_info, script_data,
                                       final_video_path, u.results)
            /\ log' = log \o StageStartLog("publish") \o PublishLog(u.results)
    /\ pc' = NextStage("publish")
    /\ UNCHANGED <<product_info, script_data, audio_path, subtitle_path,
                   video_path, final_video_path, audio_duration, video_duration,
                   comp, propagated, failed>>

Next ==
    \/ Extract
    \/ Script
    \/ Speech
    \/ Subtitles
    \/ Video
    \/ Composite
    \/ Publish

Spec == Init /\ [][Next]_allvars

(* ------------------- the pollers and upload_video ---------------------- *)

\* What _wait_for_upload_completion returns (instagram_uploader.py:117, 120, 129).
POLL_TRUE == "True"
POLL_FALSE == "False"

\* result.get('video_url') of a completed task (video_generator.py:195); a
\* completed task carries its video_url.
VideoUrls == {"https://runway/video.mp4"}

ContainerIds == {"container_id"}
MediaIds == {"media_id"}

\* The answers to one status query.  FINISHED is status_code 'FINISHED'
\* (Instagram) or status 'completed' (Runway); FAILED is 'ERROR' or 'failed';
\* PENDING is any other status; HTTP_ERROR is a response that is not 200/OK;
\* EXC is requests.get raising.
Answers == {"PENDING", "FINISHED", "FAILED", "HTTP_ERROR", "EXC"}

\* Mutant: the loop is entered while the elapsed time is at most max_wait.
LoopConditionInclusive(t, limit) == t <= limit

\* `while time.time() - start_time < max_wait`
\* (instagram_uploader.py:101, video_generator.py:182).
LoopCondition(t, limit) == t < limit

\* Mutant: the success status is not recognised and polling goes on.
PollBodyIgnoresFinished(j, answer) ==
    IF answer = "FAILED"
    THEN [returns |-> TRUE, ret |-> IF j = "instagram" THEN POLL_FALSE ELSE NULL,
          reason |-> "error"]
    ELSE [returns |-> FALSE, ret |-> NULL, reason |-> "none"]

\* Mutant: the failure status is not recognised and polling goes on.
PollBodyIgnoresFailed(j, answer) ==
    IF answer = "FINISHED"
    THEN [returns |-> TRUE,
          ret |-> IF j = "instagram" THEN POLL_TRUE ELSE CHOOSE u \in VideoUrls : TRUE,
          reason |-> "finished"]
    ELSE [returns |-> FALSE, ret |-> NULL, reason |-> "none"]

\* Mutant: a query that raised or got an HTTP error ends the polling.
PollBodyErrorReturns(j, answer) ==
    IF answer = "FINISHED"
    THEN [returns |-> TRUE,
          ret |-> IF j = "instagram" THEN POLL_TRUE ELSE CHOOSE u \in VideoUrls : TRUE,
          reason |-> "finished"]
    ELSE IF answer \in {"FAILED", "HTTP_ERROR", "EXC"}
    THEN [returns |-> TRUE, ret |-> IF j = "instagram" THEN POLL_FALSE ELSE NULL,
          reason |-> "error"]
    ELSE [returns |-> FALSE, ret |-> NULL, reason |-> "none"]

\* One pass through the loop body after the query was answered
\* (instagram_uploader.py:112-126, video_generator.py:190-204): return on the
\* two final statuses, otherwise sleep.  An HTTP error raises in the Instagram
\* poller (raise_for_status, 110) and is skipped in the Runway poller (190);
\* an exception is caught (124, 202); all of them end in time.sleep(10).
PollBody(j, answer) ==
    IF answer = "FINISHED"
    THEN [returns |-> TRUE,
          ret |-> IF j = "instagram" THEN POLL_TRUE ELSE CHOOSE u \in VideoUrls : TRUE,
          reason |-> "finished"]
    ELSE IF answer = "FAILED"
    THEN [returns |-> TRUE, ret |-> IF j = "instagram" THEN POLL_FALSE ELSE NULL,
          reason |-> "error"]
    ELSE [returns |-> FALSE, ret |-> NULL, reason |-> "none"]

\* Mutant: the time-out has a return value of its own.
TimeoutReturnDistinct(j) == "TIMED_OUT"

\* What the poller returns when the loop ends
\* (instagram_uploader.py:128-129, video_generator.py:206-207).
TimeoutReturn(j) == IF j = "instagram" THEN POLL_FALSE ELSE NULL

\* Mutant: the poller's result is not tested before publishing.
AfterPollAlwaysPublish(ret) == "publish"

\* `if not self._wait_for_upload_completion(container_id): return None`
\* (instagram_uploader.py:27-28).
AfterPoll(ret) == IF ret = POLL_TRUE THEN "publish" ELSE "returned"

\* A poller is called on its own with some max_wait, or upload_video is
\* called and will call the Instagram poller with the default max_wait.
InitJobs ==
    /\ OffJobsIdle
    /\ \/ /\ entry = "upload_video" /\ job = "instagram"
          /\ jpc = "create" /\ max_wait = DEFAULT_MAX_WAIT
       \/ /\ entry = "poll" /\ job \in {"instagram", "runway"}
          /\ jpc = "wait" /\ max_wait \in 0..MaxWaitParam
    /\ elapsed = 0
    /\ queries = 0
    /\ sleeps = 0
    /\ n_pending = 0
    /\ n_failed = 0
    /\ last_answer = "none"
    /\ poll_ret = NULL
    /\ poll_reason = "none"
    /\ container_id = NULL
    /\ media_id = NULL
    /\ upload_ret = NULL
    /\ up_calls = <<>>

\* upload_video, step 1 (instagram_uploader.py:19-24): an exception is caught
\* at 39-41 and None returned.
CreateContainer ==
    /\ jpc = "create"
    /\ \E o \in Outcomes(ContainerIds) :
        /\ container_id' = o.val
        /\ jpc' = IF o.kind = "ok" /\ Truthy(o.val) THEN "wait" ELSE "returned"
    /\ up_calls' = Append(up_calls, "create")
    /\ UNCHANGED <<entry, job, max_wait, elapsed, queries, sleeps, n_pending,
                   n_failed, last_answer, poll_ret, poll_reason, media_id,
                   upload_ret>>
    /\ UNCHANGED offJobs

\* The poller is entered: start_time = time.time()
\* (instagram_uploader.py:99, video_generator.py:180).
PollStart ==
    /\ jpc = "wait"
    /\ jpc' = "poll"
    /\ elapsed' = 0
    /\ up_calls' = IF entry = "upload_video" THEN Append(up_calls, "poll") ELSE up_calls
    /\ UNCHANGED <<entry, job, max_wait, queries, sleeps, n_pending, n_failed,
                   last_answer, poll_ret, poll_reason, container_id, media_id,
                   upload_ret>>
    /\ UNCHANGED offJobs

\* What a poller's return does to its caller: upload_video goes on to publish
\* or returns None (instagram_uploader.py:27-28); a poller called on its own
\* has returned.
PollReturns(ret) ==
    jpc' = IF entry = "upload_video" THEN AfterPoll(ret) ELSE "returned"

\* One iteration of the polling loop: the loop condition holds, the status is
\* queried (taking `latency` seconds) and the loop body handles the answer.
PollIteration ==
    /\ jpc = "poll"
    /\ LoopCondition(elapsed, max_wait)
    /\ \E answer \in Answers, latency \in 0..MaxLatency :
        LET b == PollBody(job, answer)
        IN  /\ queries' = queries + 1
            /\ last_answer' = answer
            /\ n_pending' = IF answer = "PENDING" THEN n_pending + 1 ELSE n_pending
            /\ n_failed' = IF answer \in {"HTTP_ERROR", "EXC"} THEN n_failed + 1
                           ELSE n_failed
            /\ IF b.returns
               THEN /\ poll_ret' = b.ret
                    /\ poll_reason' = b.reason
                    /\ elapsed' = elapsed + latency
                    /\ sleeps' = sleeps
                    /\ PollReturns(b.ret)
               ELSE /\ elapsed' = elapsed + latency + POLL_INTERVAL
                    /\ sleeps' = sleeps + 1
                    /\ UNCHANGED <<poll_ret, poll_reason, jpc>>
    /\ UNCHANGED <<entry, job, max_wait, container_id, media_id, upload_ret,
                   up_calls>>
    /\ UNCHANGED offJobs

\* The loop condition fails: the time-out is logged and the failure value
\* returned (instagram_uploader.py:128-129, video_generator.py:206-207).
PollTimeout ==
    /\ jpc = "poll"
    /\ ~LoopCondition(elapsed, max_wait)
    /\ poll_ret' = TimeoutReturn(job)
    /\ poll_reason' = "timeout"
    /\ PollReturns(TimeoutReturn(job))
    /\ UNCHANGED <<entry, job, max_wait, elapsed, queries, sleeps, n_pending,
                   n_failed, last_answer, container_id, media_id, upload_ret,
                   up_calls>>
    /\ UNCHANGED offJobs

\* upload_video, step 3 (instagram_uploader.py:30-41): the id of the published
\* media is returned, None if there is none or _publish_media raised.
PublishMedia ==
    /\ jpc = "publish"
    /\ \E o \in Outcomes(MediaIds) :
        /\ media_id' = o.val
        /\ upload_ret' = IF o.kind = "ok" /\ Truthy(o.val) THEN o.val ELSE NULL
    /\ up_calls' = Append(up_calls, "publish")
    /\ jpc' = "returned"
    /\ UNCHANGED <<entry, job, max_wait, elapsed, queries, sleeps, n_pending,
                   n_failed, last_answer, poll_ret, poll_reason, container_id>>
    /\ UNCHANGED offJobs

\* The values the state of an upload or a poll takes.
JobTypeOK ==
    /\ entry \in {"upload_video", "poll"}
    /\ job \in {"instagram", "runway"}
    /\ jpc \in {"create", "wait", "poll", "publish", "returned"}
    /\ max_wait \in 0..DEFAULT_MAX_WAIT
    /\ elapsed \in 0..(max_wait + MaxLatency + POLL_INTERVAL)
    /\ queries = n_pending + n_failed
                   + (IF last_answer \in {"FINISHED", "FAILED"} THEN 1 ELSE 0)
    /\ sleeps \in 0..queries
    /\ last_answer \in Answers \cup {"none"}
    /\ poll_ret \in {POLL_TRUE, POLL_FALSE, NULL} \cup VideoUrls
    /\ poll_reason \in {"none", "finished", "error", "timeout"}
    /\ container_id \in ContainerIds \cup {NULL}
    /\ media_id \in MediaIds \cup {NULL}
    /\ upload_ret \in MediaIds \cup {NULL}
    /\ Len(up_calls) <= 3

NextJobs ==
    \/ CreateContainer
    \/ PollStart
    \/ PollIteration
    \/ PollTimeout
    \/ PublishMedia

SpecJobs == InitJobs /\ [][NextJobs]_allvars

\* The poller is sequential code: as long as every query is answered (by a
\* status or by an error) and every sleep returns, its next step is taken.
SpecJobsFair == SpecJobs /\ WF_allvars(NextJobs)

(* -------------------- YouTubeUploader.upload_video --------------------- *)

\* time is not imported in youtube_uploader.py (lines 2-9), so evaluating
\* time.sleep (youtube_uploader.py:124) raises NameError.
YouTubeTimeImported == FALSE
NameErrorTime == [cls |-> "NameError", msg |-> "name 'time' is not defined"]

YouTubeVideoIds == {"video_id"}

\* The response dicts next_chunk may deliver: with and without an 'id'.
ResponseBodies == {("id" :> v) : v \in YouTubeVideoIds}
                    \cup {("error" :> "uploadRejected")}

\* 2 ** retry (youtube_uploader.py:124).
Pow2(n) == IF n = 0 THEN 1 ELSE IF n = 1 THEN 2 ELSE IF n = 2 THEN 4 ELSE 8

\* The handler of a failed next_chunk (youtube_uploader.py:119-126): below 3
\* retries the counter is incremented and time.sleep(2 ** retry) called, which
\* raises NameError; at 3 retries the error is raised again.  `raised` is the
\* exception that leaves the handler, NoError if the loop goes on.
ChunkFailed(r, e) ==
    IF r < 3
    THEN [retry |-> r + 1,
          waits |-> IF YouTubeTimeImported THEN <<Pow2(r + 1)>> ELSE <<>>,
          raised |-> IF YouTubeTimeImported THEN NoError ELSE NameErrorTime]
    ELSE [retry |-> r, waits |-> <<>>, raised |-> e]

\* After the loop (youtube_uploader.py:128-133): the 'id' of the response,
\* None if it has none.
ResponseId(resp) == IF "id" \in DOMAIN resp.body THEN resp.body["id"] ELSE NULL

\* upload_video is called on an uploader whose service was initialised or not
\* (youtube_uploader.py:17, 48, 51-52).
InitYouTube ==
    /\ OffYouTubeIdle
    /\ ypc = "upload"
    /\ youtube_service \in {"service", NULL}
    /\ retry = 0
    /\ chunks = 0
    /\ response = NoResponse
    /\ yt_error = NoError
    /\ yt_failures = 0
    /\ yt_waits = <<>>
    /\ yt_caught = NoError
    /\ video_id = NULL

\* upload_video up to the call of _execute_upload (youtube_uploader.py:57-92):
\* None without a service; MediaFileUpload or videos().insert may raise, which
\* is caught at 100-102; _execute_upload starts with retry = 0 (107-109).
YouTubeUploadVideo ==
    /\ ypc = "upload"
    /\ IF ~Truthy(youtube_service)
       THEN /\ ypc' = "returned"
            /\ yt_caught' = yt_caught
       ELSE \E o \in {Ok("insert_request")} \cup {Raises(e) : e \in CollaboratorErrors} :
              IF o.kind = "ok"
              THEN /\ ypc' = "chunk"
                   /\ yt_caught' = yt_caught
              ELSE /\ Catches(o.err)
                   /\ ypc' = "returned"
                   /\ yt_caught' = o.err
    /\ UNCHANGED <<youtube_service, retry, chunks, response, yt_error,
                   yt_failures, yt_waits, video_id>>
    /\ UNCHANGED offYouTube

\* One pass of `while response is None` (youtube_uploader.py:111-126):
\* next_chunk reports progress, delivers the response, or raises.  An
\* exception that leaves the handler is caught at 135 and _execute_upload
\* returns None, so upload_video returns None (94-98).
YouTubeNextChunk ==
    /\ ypc = "chunk"
    /\ response.none
    /\ \/ /\ chunks < MaxChunks
          /\ chunks' = chunks + 1
          /\ UNCHANGED <<ypc, retry, response, yt_error, yt_failures,
                         yt_waits, yt_caught>>
       \/ /\ \E d \in ResponseBodies : response' = Response(d)
          /\ ypc' = "respond"
          /\ UNCHANGED <<retry, chunks, yt_error, yt_failures, yt_waits,
                         yt_caught>>
       \/ \E e \in CollaboratorErrors :
            LET h == ChunkFailed(retry, e)
            IN  /\ yt_error' = e
                /\ yt_failures' = yt_failures + 1
                /\ retry' = h.retry
                /\ yt_waits' = yt_waits \o h.waits
                /\ yt_caught' = h.raised
                /\ ypc' = IF h.raised = NoError THEN "chunk" ELSE "returned"
                /\ UNCHANGED <<chunks, response>>
    /\ UNCHANGED <<youtube_service, video_id>>
    /\ UNCHANGED offYouTube

\* The loop has ended with a response (youtube_uploader.py:128-133, 94-98).
YouTubeReturn ==
    /\ ypc = "respond"
    /\ video_id' = ResponseId(response)
    /\ ypc' = "returned"
    /\ UNCHANGED <<youtube_service, retry, chunks, response, yt_error,
                   yt_failures, yt_waits, yt_caught>>
    /\ UNCHANGED offYouTube

NextYouTube ==
    \/ YouTubeUploadVideo
    \/ YouTubeNextChunk
    \/ YouTubeReturn

SpecYouTube == InitYouTube /\ [][NextYouTube]_allvars

(* --------------- VideoGenerator.generate_video_from_script ------------- *)

\* f"output/videos/default_scene_{int(time.time())}.mp4" (video_generator.py:168)
DefaultScenePath(t) == <<"output/videos/default_scene_", t, ".mp4">>

\* f"output/videos/downloaded_{int(time.time())}.mp4" (video_generator.py:215)
DownloadedPath(t) == <<"output/videos/downloaded_", t, ".mp4">>

\* f"output/videos/final_video_{int(time.time())}.mp4" (video_generator.py:49)
GeneratedVideoPath(t) == <<"output/videos/final_video_", t, ".mp4">>

\* A scene of the script: with its 'duration', or without the key.
SceneShapes == {("description" :> "scene") @@ ("duration" :> 5),
                ("description" :> "scene")}

\* The scripts: at most one scene lacks its duration.
Scripts ==
    {sc \in UNION {[1..n -> SceneShapes] : n \in 0..MaxScenes} :
        Cardinality({i \in DOMAIN sc : "duration" \notin DOMAIN sc[i]}) <= 1}

\* What happens to the remote generation job of a scene
\* (video_generator.py:96-109): requests.post raises; the submit is answered
\* with a status other than 200; the poller returns None on status 'failed'
\* or at the time-out; the poller returns the video_url.
RemoteOutcomes == {"raised", "rejected", "failed", "timeout", "completed"}

\* _wait_for_video_completion as _generate_video_from_image sees it.
WaitForVideoCompletion(remote) ==
    IF remote = "completed" THEN PollBody("runway", "FINISHED").ret
    ELSE IF remote = "failed" THEN PollBody("runway", "FAILED").ret
    ELSE TimeoutReturn("runway")

\* _create_default_video (video_generator.py:156-176): the clip is written
\* under a name made of the clock second; any exception gives None.
CreateDefaultVideo(t, fault) ==
    [path |-> IF fault THEN NoPath ELSE DefaultScenePath(t),
     default |-> TRUE]

\* _download_video (video_generator.py:209-225).
DownloadVideo(t, fault) ==
    [path |-> IF fault THEN NoPath ELSE DownloadedPath(t),
     default |-> FALSE]

\* _generate_video_from_image (video_generator.py:75-115).
GenerateVideoFromImage(key, remote, t, dl_fault, def_fault) ==
    IF ~key THEN CreateDefaultVideo(t, def_fault)
    ELSE IF remote \in {"raised", "rejected"} THEN CreateDefaultVideo(t, def_fault)
    ELSE IF Truthy(WaitForVideoCompletion(remote)) THEN DownloadVideo(t, dl_fault)
    ELSE CreateDefaultVideo(t, def_fault)

\* _generate_video_from_text and _generate_with_veo
\* (video_generator.py:117-154): every path ends in _create_default_video.
GenerateVideoFromText(key, t, def_fault) == CreateDefaultVideo(t, def_fault)

\* generate_video_from_script is called with a script, some images and a
\* generator that has its API keys or not.
InitGen ==
    /\ OffGenIdle
    /\ gpc = "scene"
    /\ scenes \in Scripts
    /\ product_images \in 0..Len(scenes)
    /\ runway_api_key \in BOOLEAN
    /\ veo_api_key \in BOOLEAN
    /\ scene_idx = 0
    /\ now = 0
    /\ written = <<>>
    /\ video_clips = <<>>
    /\ scene_log = <<>>
    /\ gen_caught = NoError
    /\ gen_ret = NoPath

\* One pass of the loop over the scenes (video_generator.py:25-44).
\* scene['duration'] raises KeyError when the key is missing, and
\* VideoFileClip(video_path) may raise: both are caught at 62-64 and None is
\* returned.  A clip that was produced is a file written at the clock second
\* `now`; producing it takes `tick` seconds.
GenerateScene ==
    /\ gpc = "scene"
    /\ scene_idx < Len(scenes)
    /\ LET i == scene_idx + 1
           scene == scenes[i]
       IN  IF "duration" \notin DOMAIN scene
           THEN /\ gen_caught' = KeyErrorOf("duration")
                /\ gpc' = "returned"
                /\ UNCHANGED <<scene_idx, now, written, video_clips, scene_log>>
           ELSE \E remote \in RemoteOutcomes, dl_fault \in BOOLEAN,
                   def_fault \in BOOLEAN, open_fault \in BOOLEAN,
                   tick \in 0..MaxTick :
                  LET from_image == i - 1 < product_images
                      r == IF from_image
                           THEN GenerateVideoFromImage(runway_api_key, remote, now,
                                                       dl_fault, def_fault)
                           ELSE GenerateVideoFromText(veo_api_key, now, def_fault)
                      entry_ == [scene |-> i,
                                 remote |-> IF from_image /\ runway_api_key
                                            THEN remote ELSE "none",
                                 downloaded |-> from_image /\ runway_api_key
                                                /\ remote = "completed"
                                                /\ r.path # NoPath,
                                 default |-> r.default,
                                 path |-> r.path]
                  IN  /\ scene_log' = Append(scene_log, entry_)
                      /\ scene_idx' = i
                      /\ IF r.path # NoPath
                         THEN /\ written' = Append(written, [path |-> r.path, by |-> i])
                              /\ now' = now + tick
                              /\ IF open_fault
                                 THEN /\ gen_caught' = ComposeError
                                      /\ gpc' = "returned"
                                      /\ UNCHANGED video_clips
                                 ELSE /\ video_clips' = Append(video_clips, r.path)
                                      /\ UNCHANGED <<gen_caught, gpc>>
                         ELSE UNCHANGED <<written, now, video_clips, gen_caught, gpc>>
    /\ UNCHANGED <<scenes, product_images, runway_api_key, veo_api_key, gen_ret>>
    /\ UNCHANGED offGen

\* After the loop (video_generator.py:47-60): the clips are concatenated and
\* written under a name made of the clock second; without clips None is
\* returned; an exception is caught at 62-64.
Concatenate ==
    /\ gpc = "scene"
    /\ scene_idx = Len(scenes)
    /\ gpc' = "returned"
    /\ IF video_clips # <<>>
       THEN \E fault \in BOOLEAN :
              IF fault
              THEN /\ gen_caught' = ComposeError
                   /\ UNCHANGED <<written, gen_ret>>
              ELSE /\ written' = Append(written, [path |-> GeneratedVideoPath(now),
                                                  by |-> 0])
                   /\ gen_ret' = GeneratedVideoPath(now)
                   /\ UNCHANGED gen_caught
       ELSE UNCHANGED <<written, gen_ret, gen_caught>>
    /\ UNCHANGED <<scenes, product_images, runway_api_key, veo_api_key,
                   scene_idx, now, video_clips, scene_log>>
    /\ UNCHANGED offGen

NextGen ==
    \/ GenerateScene
    \/ Concatenate

SpecGen == InitGen /\ [][NextGen]_allvars

(* ----------------------- concurrent pipeline runs ---------------------- *)

\* time is not imported in audio_generator.py (lines 2-7), so evaluating
\* int(time.time()) (audio_generator.py:28) raises NameError before the file
\* is opened: generate_speech itself writes no file.
AudioTimeImported == FALSE

\* f"output/audio/speech_{int(time.time())}.mp3" (audio_generator.py:28)
SpeechPath(t) == <<"output/audio/speech_", t, ".mp3">>

\* f"output/videos/final_{int(time.time())}.mp4" (main.py:162)
ComposedPath(t) == <<"output/videos/final_", t, ".mp4">>

\* The files a stage of run r writes at the clock second t.  The speech
\* file is written at audio_generator.py:31-32, the generated video at
\* video_generator.py:50, the composed video at main.py:163-168, which is
\* reached only when the subtitle test at 156 does not raise.
StageWrites(stage, r, t) ==
    IF stage = "speech"
    THEN IF AudioTimeImported
         THEN {[path |-> SpeechPath(t), run |-> r, stage |-> stage]} ELSE {}
    ELSE IF stage = "video"
    THEN {[path |-> GeneratedVideoPath(t), run |-> r, stage |-> stage]}
    ELSE IF r_subtitle[r] /\ ~OsImported
    THEN {}
    ELSE {[path |-> ComposedPath(t), run |-> r, stage |-> stage]}

\* The stages that write an artifact, in the order of main.py:68-102.
AfterStage(stage) ==
    IF stage = "speech" THEN "video" ELSE IF stage = "video" THEN "composite"
    ELSE "done"

\* Two runs of process_coupang_link are about to reach their speech stage;
\* the subtitle stage of each will return a path or None.
InitNames ==
    /\ OffNamesIdle
    /\ clock = 0
    /\ rpc = [r \in Runs |-> "speech"]
    /\ r_subtitle \in [Runs -> BOOLEAN]
    /\ artifacts = {}

\* A second passes.
Tick ==
    /\ clock < MaxClock
    /\ clock' = clock + 1
    /\ UNCHANGED <<rpc, r_subtitle, artifacts>>
    /\ UNCHANGED offNames

\* Run r executes its next artifact-writing stage (main.py:68-102): the stage
\* gives its artifact, written under the name of the current second, or gives
\* None and the run fails.  The collaborators are taken at their interface,
\* as in the stages of process_coupang_link above.
RunStage(r) ==
    /\ rpc[r] \in {"speech", "video", "composite"}
    /\ \E ok \in BOOLEAN :
         LET files == IF ok THEN StageWrites(rpc[r], r, clock) ELSE {}
             gives == IF rpc[r] = "speech" THEN ok ELSE files # {}
         IN  /\ artifacts' = artifacts \cup files
             /\ rpc' = [rpc EXCEPT ![r] = IF gives THEN AfterStage(rpc[r])
                                          ELSE "failed"]
    /\ UNCHANGED <<clock, r_subtitle>>
    /\ UNCHANGED offNames

NextNames ==
    \/ Tick
    \/ \E r \in Runs : RunStage(r)

SpecNames == InitNames /\ [][NextNames]_allvars

(* ---------------------- the collaborators' boundaries ------------------ *)

\* The methods the orchestrator calls (main.py:56, 63, 70, 87, 189, 201).
BoundaryMethods == {"extract_product_info", "generate_video_script",
                    "generate_speech", "generate_video_from_script",
                    "instagram.upload_video", "youtube.upload_video"}

\* The statements inside the try block of each method, in order:
\* coupang_scraper.py:31-53, gemini_handler.py:18-24, audio_generator.py:20-35,
\* video_generator.py:22-58, instagram_uploader.py:21-37,
\* youtube_uploader.py:58-98.
TryBody(m) ==
    IF m = "extract_product_info"
    THEN <<"_is_valid_coupang_url", "session.get", "raise_for_status",
           "BeautifulSoup", "_extract_fields">>
    ELSE IF m = "generate_video_script"
    THEN <<"_create_script_prompt", "generate_content", "_parse_script_response">>
    ELSE IF m = "generate_speech"
    THEN <<"speech.create", "output_path", "makedirs", "write">>
    ELSE IF m = "generate_video_from_script"
    THEN <<"scenes", "concatenate_videoclips", "write_videofile", "close">>
    ELSE IF m = "instagram.upload_video"
    THEN <<"_create_media_container", "_wait_for_upload_completion",
           "_publish_media">>
    ELSE <<"youtube_service", "MediaFileUpload", "videos.insert",
           "_execute_upload">>

\* The errors that may occur inside a method: an invalid URL (ValueError,
\* coupang_scraper.py:32), a network error, a missing key, a moviepy or file
\* error, an unbound name.
BoundaryErrors == CollaboratorErrors
                    \cup {KeyErrorOf("title"), ComposeError, NameErrorTime}

\* The error a statement raises by itself: the file name of the speech is
\* made from time.time() with time unbound (audio_generator.py:28).
RaisesBySelf(m, stmt) ==
    IF m = "generate_speech" /\ stmt = "output_path" /\ ~AudioTimeImported
    THEN NameErrorTime ELSE NoError

\* Mutant: the handler logs the error and raises it again.
BoundaryExceptReraises(e) == [pc |-> "raised", caught |-> e, raised |-> e]

\* `except Exception as e: ...; return None`, the handler that encloses the
\* whole body of each method (coupang_scraper.py:55-57, gemini_handler.py:26-28,
\* audio_generator.py:37-39, video_generator.py:62-64,
\* instagram_uploader.py:39-41, youtube_uploader.py:100-102).
BoundaryExcept(e) ==
    IF Catches(e)
    THEN [pc |-> "returned", caught |-> e, raised |-> NoError]
    ELSE [pc |-> "raised", caught |-> NoError, raised |-> e]

\* A method is called; an error will occur at one statement of its body, or
\* at none.
InitBoundary ==
    /\ OffBoundaryIdle
    /\ collab \in BoundaryMethods
    /\ fault_at \in 0..Len(TryBody(collab))
    /\ fault_err \in IF fault_at = 0 THEN {NoError} ELSE BoundaryErrors
    /\ bstep = 0
    /\ bpc = "running"
    /\ bret = NULL
    /\ bcaught = NoError
    /\ braised = NoError

\* The next statement of the try block runs: it completes, or it raises and
\* the handler runs.
BodyStatement ==
    /\ bpc = "running"
    /\ bstep < Len(TryBody(collab))
    /\ LET stmt == TryBody(collab)[bstep + 1]
           e == IF bstep + 1 = fault_at THEN fault_err
                ELSE RaisesBySelf(collab, stmt)
       IN  IF e = NoError
           THEN /\ bstep' = bstep + 1
                /\ UNCHANGED <<bpc, bcaught, braised>>
           ELSE /\ bpc' = BoundaryExcept(e).pc
                /\ bcaught' = BoundaryExcept(e).caught
                /\ braised' = BoundaryExcept(e).raised
                /\ UNCHANGED bstep
    /\ UNCHANGED <<collab, fault_at, fault_err, bret>>
    /\ UNCHANGED offBoundary

\* The try block has run to its end: the method returns its value.
BodyReturn ==
    /\ bpc = "running"
    /\ bstep = Len(TryBody(collab))
    /\ bpc' = "returned"
    /\ bret' = "value"
    /\ UNCHANGED <<collab, fault_at, fault_err, bstep, bcaught, braised>>
    /\ UNCHANGED offBoundary

NextBoundary ==
    \/ BodyStatement
    \/ BodyReturn

SpecBoundary == InitBoundary /\ [][NextBoundary]_allvars

(* -------------------------------- main() ------------------------------- *)

\* The environment variables config.py reads (config.py:9-15).
KeyNames == {"GEMINI_API_KEY", "OPENAI_API_KEY", "RUNWAY_API_KEY",
             "INSTAGRAM_ACCESS_TOKEN", "INSTAGRAM_USER_ID"}

\* Config.validate_keys (config.py:31-39).
ValidateKeys(keys) ==
    {"GEMINI_API_KEY", "OPENAI_API_KEY", "INSTAGRAM_ACCESS_TOKEN",
     "INSTAGRAM_USER_ID"} \subseteq keys

\* raise ValueError(...) of __init__ (main.py:31-32).
MissingKeysError == [cls |-> "ValueError", msg |-> "required API keys are not set"]

\* Ctrl-C while main() runs.
KeyboardInterrupt == [cls |-> "KeyboardInterrupt", msg |-> ""]

\* The characters of a typed line: white space and others.
Whitespace == {" "}
Chars == Whitespace \cup {"u"}
Lines == UNION {[1..n -> Chars] : n \in 0..MaxUrlLen}

\* str.strip(): the line without its leading and trailing white space.
RECURSIVE Strip(_)
Strip(line) ==
    IF line = <<>> THEN <<>>
    ELSE IF Head(line) \in Whitespace THEN Strip(Tail(line))
    ELSE IF line[Len(line)] \in Whitespace THEN Strip(SubSeq(line, 1, Len(line) - 1))
    ELSE line

\* What process_coupang_link returns (main.py:111-129).
RunResults ==
    {FailureResult(e) : e \in CollaboratorErrors \cup {NullException("extract")}}
      \cup {SuccessResult("product_info", "script_data", FinalPath,
                          UploadToSocialMedia("script_data", ig, yt).results) :
              ig \in Outcomes(InstagramIds), yt \in Outcomes(YouTubeIds)}

\* result['upload_results'].get(target, {}).get('success') (main.py:238-239).
TargetSucceeded(res, target) ==
    IF target \in DOMAIN res.upload_results
    THEN res.upload_results[target].success ELSE FALSE

\* The lines main() prints for a result (main.py:236-242).
ReportLines(res) ==
    IF res.success
    THEN <<"done",
           IF TargetSucceeded(res, "instagram") THEN "instagram: ok"
           ELSE "instagram: failed",
           IF TargetSucceeded(res, "youtube") THEN "youtube: ok"
           ELSE "youtube: failed",
           "video: " \o res.video_path>>
    ELSE <<"failed: " \o res.error>>

\* Mutant: main() has the KeyboardInterrupt handler only.
MainExceptInterruptOnly(e) ==
    IF e.cls = "KeyboardInterrupt"
    THEN [pc |-> "returned", caught |-> e, raised |-> NoError, line |-> <<"interrupted">>]
    ELSE [pc |-> "crashed", caught |-> NoError, raised |-> e, line |-> <<>>]

\* The handlers of main() (main.py:244-247).
MainExcept(e) ==
    IF e.cls = "KeyboardInterrupt"
    THEN [pc |-> "returned", caught |-> e, raised |-> NoError, line |-> <<"interrupted">>]
    ELSE IF Catches(e)
    THEN [pc |-> "returned", caught |-> e, raised |-> NoError,
          line |-> <<"error: " \o Str(e)>>]
    ELSE [pc |-> "crashed", caught |-> NoError, raised |-> e, line |-> <<>>]

\* main() is called in some environment; some line will be typed.
InitMain ==
    /\ OffMainIdle
    /\ mpc = "construct"
    /\ env_keys \in SUBSET KeyNames
    /\ typed \in Lines
    /\ coupang_url = <<>>
    /\ processed = 0
    /\ m_result = <<>>
    /\ printed = <<>>
    /\ m_caught = NoError
    /\ m_raised = NoError

\* An exception e reaches the handlers of main().
MainRaise(e) ==
    /\ mpc' = MainExcept(e).pc
    /\ m_caught' = MainExcept(e).caught
    /\ m_raised' = MainExcept(e).raised
    /\ printed' = printed \o MainExcept(e).line

\* automation = CoupangVideoAutomation() (main.py:222, 27-47): ValueError
\* without the required keys; a collaborator's constructor may raise.
MainConstruct ==
    /\ mpc = "construct"
    /\ IF ~ValidateKeys(env_keys)
       THEN MainRaise(MissingKeysError)
       ELSE \/ \E e \in CollaboratorErrors : MainRaise(e)
            \/ /\ mpc' = "input"
               /\ UNCHANGED <<m_caught, m_raised, printed>>
    /\ UNCHANGED <<env_keys, typed, coupang_url, processed, m_result>>
    /\ UNCHANGED offMain

\* The URL is read and stripped (main.py:225-232); without a URL main()
\* returns; the prompt may be interrupted.
MainInput ==
    /\ mpc = "input"
    /\ \/ /\ MainRaise(KeyboardInterrupt)
          /\ UNCHANGED coupang_url
       \/ /\ coupang_url' = Strip(typed)
          /\ IF Strip(typed) = <<>>
             THEN /\ printed' = Append(printed, "no URL")
                  /\ mpc' = "returned"
             ELSE /\ printed' = Append(printed, "starting")
                  /\ mpc' = "process"
          /\ UNCHANGED <<m_caught, m_raised>>
    /\ UNCHANGED <<env_keys, typed, processed, m_result>>
    /\ UNCHANGED offMain

\* result = automation.process_coupang_link(coupang_url) (main.py:233): it
\* returns one of its two dicts; Ctrl-C passes through its `except Exception`.
MainProcess ==
    /\ mpc = "process"
    /\ processed' = processed + 1
    /\ \/ /\ MainRaise(KeyboardInterrupt)
          /\ UNCHANGED m_result
       \/ /\ \E res \in RunResults : m_result' = res
          /\ mpc' = "report"
          /\ UNCHANGED <<m_caught, m_raised, printed>>
    /\ UNCHANGED <<env_keys, typed, coupang_url>>
    /\ UNCHANGED offMain

\* The result is printed (main.py:236-242).
MainReport ==
    /\ mpc = "report"
    /\ printed' = printed \o ReportLines(m_result)
    /\ mpc' = "returned"
    /\ UNCHANGED <<env_keys, typed, coupang_url, processed, m_result,
                   m_caught, m_raised>>
    /\ UNCHANGED offMain

NextMain ==
    \/ MainConstruct
    \/ MainInput
    \/ MainProcess
    \/ MainReport

SpecMain == InitMain /\ [][NextMain]_allvars

(* ---------------------------- observations ---------------------------- *)

Invoked == {calls[i] : i \in 1..Len(calls)}

TimesInvoked(c) == Cardinality({i \in 1..Len(calls) : calls[i] = c})

Returned == pc = "done" /\ "success" \in DOMAIN result

Succeeded == Returned /\ result.success = TRUE

Failed == Returned /\ result.success = FALSE

Min(a, b) == IF a <= b THEN a ELSE b

\* The stage a failure message names, "none" if it names no stage.
NamedStage(msg) ==
    CASE msg = "product info extraction failed" -> "extract"
      [] msg = "script generation failed"       -> "script"
      [] msg = "speech generation failed"       -> "speech"
      [] msg = "video generation failed"        -> "video"
      [] msg = "video composition failed"       -> "composite"
      [] OTHER                                  -> "none"

(* ------------------------------- claims ------------------------------- *)

\* C1 as stated: whenever one of the first five stages (extract, script,
\* speech, subtitles, video) has returned None, the run has ended with
\* success = False and that stage is the last one invoked.
C1_NullOfFirstFiveIsFatal ==
    \A s \in {"extract", "script", "speech", "subtitles", "video"} :
        outcome[s] = "null" =>
            /\ Failed
            /\ calls[Len(calls)] = s

\* C1 amended: whenever extract, script, speech or video has returned None,
\* the run has ended with success = False and that stage is the last one
\* invoked (no later stage, composite and publish included, is invoked).
C1_NullOfCheckedStageIsFatal ==
    \A s \in {"extract", "script", "speech", "video"} :
        outcome[s] = "null" =>
            /\ Failed
            /\ calls[Len(calls)] = s

\* C1 witness: the video stage returned None after the four stages before it
\* succeeded.
C1_Witness ==
    /\ outcome["video"] = "null"
    /\ \A s \in {"extract", "script", "speech", "subtitles"} : outcome[s] = "ok"

\* C2: the collaborators are invoked in the order extract, script, speech,
\* subtitles, video, composite, publish (Instagram, then YouTube): the calls
\* made so far are an initial part of that order, and every collaborator
\* called before the last one has returned (a value or None) rather than
\* raised; the two uploads are called inside the publish stage.
C2_StrictOrder ==
    LET order == <<"extract", "script", "speech", "subtitles", "video",
                   "composite", "publish", "instagram", "youtube">>
    IN  /\ Len(calls) <= Len(order)
        /\ \A i \in 1..Len(calls) : calls[i] = order[i]
        /\ \A i \in 1..(Len(calls) - 1) :
               calls[i] # "publish" => outcome[calls[i]] \in {"ok", "null"}

\* C2 witness: a run in which all seven stages and both uploads were invoked.
C2_Witness == pc = "done" /\ Len(calls) = 9

\* C3 as stated: in a run that has returned, if any stage or upload returned
\* None or raised, the result has success = False.
C3_AnyFailureGivesFailure ==
    (pc = "done" /\ \E c \in Collaborators : outcome[c] \in {"null", "raise"})
        => Failed

\* C3 amended: no exception leaves process_coupang_link and a run that is
\* over has returned a result with a success flag; the result has
\* success = False as soon as extract, script, speech, video or composite
\* returned None or extract, script, speech, subtitles or video raised; a
\* subtitle stage returning None, a failed upload and a raising upload do
\* not by themselves make success False.
C3_ReturnsNormally ==
    /\ propagated = NoError
    /\ pc # "raised"
    /\ pc = "done" => Returned
    /\ pc # "done" => ENABLED Next
    /\ (\/ \E s \in {"extract", "script", "speech", "video", "composite"} :
              outcome[s] = "null"
        \/ \E s \in {"extract", "script", "speech", "subtitles", "video"} :
              outcome[s] = "raise")
          => Failed
    /\ (pc = "done" /\ failed.stage = "none") => Succeeded

\* C3 witness: the subtitle stage raised and the run returned a failure.
C3_Witness == outcome["subtitles"] = "raise" /\ Failed

C5_TwoShapes ==
    pc = "done" =>
        /\ result.success = TRUE =>
            /\ DOMAIN result = {"success", "product_info", "script_data",
                                "video_path", "upload_results", "processing_time"}
            /\ result.product_info = product_info /\ Truthy(product_info)
            /\ result.script_data = script_data /\ Truthy(script_data)
            /\ result.video_path = final_video_path /\ Truthy(final_video_path)
            /\ result.upload_results = upload_results
        /\ result.success = FALSE =>
            DOMAIN result = {"success", "error", "processing_time"}

\* C5 witness: a successful run whose upload results hold an 'error' key, which
\* is not a key of the result itself.
C5_Witness == Succeeded /\ "error" \in DOMAIN result.upload_results

\* C6: when the subtitle stage returned None the run does not fail at that
\* stage, and if every other stage succeeded the video, composite and publish
\* stages were invoked and the result has success = True.
C6_NullSubtitleNotFatal ==
    outcome["subtitles"] = "null" =>
        /\ failed.stage # "subtitles"
        /\ subtitle_path = NULL
        /\ (pc = "done" /\ \A s \in {"extract", "script", "speech", "video",
                                     "composite"} : outcome[s] = "ok")
              => /\ {"video", "composite", "publish"} \subseteq Invoked
                 /\ Succeeded

\* C6 witness: a run without subtitles that succeeded with both uploads done.
C6_Witness ==
    /\ outcome["subtitles"] = "null"
    /\ Succeeded
    /\ outcome["instagram"] = "ok" /\ outcome["youtube"] = "ok"

\* C7: the publish stage and the two uploads are invoked only after
\* _compose_final_video returned a path, which is the path they are given;
\* when it returned None the run has ended with success = False, no upload
\* was invoked and the result has no video_path.
C7_PublishOnlyAfterComposition ==
    /\ (Invoked \cap {"publish", "instagram", "youtube"} # {}) =>
           /\ comp.ran /\ comp.ret # NULL /\ comp.written
           /\ final_video_path = comp.ret
    /\ (comp.ran /\ comp.ret = NULL) =>
           /\ Failed
           /\ Invoked \cap {"publish", "instagram", "youtube"} = {}
           /\ "video_path" \notin DOMAIN result

\* C7 witness: the composition failed while writing the file.
C7_Witness == comp.ran /\ comp.ret = NULL /\ comp.reconciled /\ ~comp.written

\* C8: within one run every stage and every upload target is invoked at most
\* once, whatever its outcome.
C8_NoRetry == \A c \in Collaborators : TimesInvoked(c) <= 1

\* C8 witness: a finished run in which the Instagram upload returned None.
C8_Witness == pc = "done" /\ outcome["instagram"] = "null" /\ TimesInvoked("instagram") = 1

\* C9: after the reconciliation the audio track and the video track both last
\* min(Da, Dv), and with Da = Dv neither is trimmed.
C9_ReconciledToMin ==
    comp.reconciled =>
        /\ comp.audio = Min(audio_duration, video_duration)
        /\ comp.video = Min(audio_duration, video_duration)
        /\ audio_duration = video_duration =>
               ~comp.audio_trimmed /\ ~comp.video_trimmed

\* C9 witness: a zero-length audio reconciled with a longer video.
C9_Witness == comp.reconciled /\ audio_duration = 0 /\ video_duration > 0

\* C10: the reconciliation cuts only the longer artifact: with Da > Dv the
\* audio is cut to Dv and the video is untouched, with Da < Dv the video is cut
\* to Da and the audio is untouched; never both, and neither gets longer.
C10_OnlyLongerIsCut ==
    comp.reconciled =>
        /\ audio_duration > video_duration =>
               /\ comp.audio_trimmed /\ ~comp.video_trimmed
               /\ comp.audio = video_duration /\ comp.video = video_duration
        /\ audio_duration < video_duration =>
               /\ comp.video_trimmed /\ ~comp.audio_trimmed
               /\ comp.video = audio_duration /\ comp.audio = audio_duration
        /\ ~(comp.audio_trimmed /\ comp.video_trimmed)
        /\ comp.audio <= audio_duration
        /\ comp.video <= video_duration

\* C10 witness: an audio shorter than the video, composed into a written file.
C10_Witness ==
    /\ comp.written
    /\ 0 < audio_duration /\ audio_duration < video_duration
    /\ comp.video_trimmed

\* C11: a composition given a subtitle path whose file does not exist does
\* exactly what the composition of the same video and audio without a subtitle
\* path does: no overlay, the same file written, the same return value.
C11_MissingSubtitleFileAsNoSubtitle ==
    (comp.ran /\ Truthy(subtitle_path) /\ ~comp.exists) =>
        LET plain == ComposeFinalVideo(video_path, audio_path, NULL, video_duration,
                                       audio_duration, comp.fault, comp.exists)
        IN  /\ ~comp.subtitled
            /\ comp.ret = plain.ret
            /\ comp.written = plain.written
            /\ comp.audio = plain.audio /\ comp.video = plain.video

\* C12: whenever _compose_final_video has returned, on success or after a
\* failure at any step, every clip it opened has been closed.
C12_EveryOpenedHandleClosed ==
    comp.ran => comp.closed = comp.opened

\* C13: _compose_final_video never raises to process_coupang_link: an error
\* at any step makes it return None, which ends the run with the composition
\* failure message, and it returns a path only when nothing raised and the
\* final file was written.
C13_CompositorNeverRaises ==
    comp.ran =>
        /\ outcome["composite"] \in {"ok", "null"}
        /\ comp.error # NoError =>
               /\ comp.ret = NULL /\ final_video_path = NULL
               /\ failed = [stage |-> "composite", mode |-> "null"]
               /\ Failed /\ result.error = "video composition failed"
        /\ comp.ret # NULL => comp.written /\ comp.error = NoError
        /\ comp.ret = NULL => comp.error # NoError

\* C13 witness: evaluating os.path.exists raised NameError inside the
\* compositor and the run returned the composition failure.
C13_Witness == comp.ran /\ comp.error = NameErrorOs /\ Failed

\* C14: every call of _upload_to_social_media attempts both the Instagram
\* upload and the YouTube upload, whatever happens to the Instagram attempt.
C14_BothTargetsAttempted ==
    "publish" \in Invoked => {"instagram", "youtube"} \subseteq Invoked

\* C15: when an upload target raised, the returned mapping has an entry for
\* that target with success = False, still has the other target's entry, and
\* has the 'error' key besides them.
C15_ExceptionBecomesTargetEntry ==
    \A t \in {"instagram", "youtube"} :
        outcome[t] = "raise" =>
            /\ {"instagram", "youtube", "error"} \subseteq DOMAIN upload_results
            /\ upload_results[t].success = FALSE

\* C16: when both uploads returned (an id or None), the mapping has exactly
\* the two target entries, each marked successful exactly when its own id is
\* not None and carrying that id, and the run's result has success = True;
\* whatever the publish stage did, the run that reached it succeeded.
C16_PerTargetOutcomes ==
    /\ "publish" \in Invoked => Succeeded
    /\ (outcome["instagram"] \in {"ok", "null"} /\ outcome["youtube"] \in {"ok", "null"}) =>
           /\ DOMAIN upload_results = {"instagram", "youtube"}
           /\ upload_results.instagram.success = (outcome["instagram"] = "ok")
           /\ upload_results.youtube.success = (outcome["youtube"] = "ok")
           /\ upload_results.instagram.media_id \in
                  (IF outcome["instagram"] = "ok" THEN InstagramIds ELSE {NULL})
           /\ upload_results.youtube.video_id \in
                  (IF outcome["youtube"] = "ok" THEN YouTubeIds ELSE {NULL})
           /\ result.upload_results = upload_results

\* C16 witness: the Instagram upload returned None, the YouTube upload an id.
C16_Witness ==
    /\ outcome["instagram"] = "null" /\ outcome["youtube"] = "ok"
    /\ Succeeded
    /\ ~result.upload_results.instagram.success
    /\ result.upload_results.youtube.success

(* --------------------- claims about uploads and polls ------------------ *)

UploadSteps == {up_calls[i] : i \in 1..Len(up_calls)}

\* The value a poller returns on success.
PollSuccessValues == IF job = "instagram" THEN {POLL_TRUE} ELSE VideoUrls

\* The value a poller returns on failure and on time-out.
PollFailureValue == IF job = "instagram" THEN POLL_FALSE ELSE NULL

\* C17: upload_video runs create container, poll, publish in that order; the
\* poll starts only with a container id, the publish call is made only after
\* the poll returned True on a FINISHED status; a step that fails (no container
\* id, poll ERROR or time-out, no media id) ends the upload with None and no
\* later step; a non-None id is returned only after all three steps succeeded.
C17_UploadProtocol ==
    entry = "upload_video" =>
        /\ \A i \in 1..Len(up_calls) : up_calls[i] = <<"create", "poll", "publish">>[i]
        /\ "poll" \in UploadSteps => container_id \in ContainerIds
        /\ "publish" \in UploadSteps =>
               /\ poll_reason = "finished" /\ poll_ret = POLL_TRUE
               /\ last_answer = "FINISHED"
        /\ (up_calls = <<"create">> /\ container_id = NULL) =>
               jpc = "returned" /\ upload_ret = NULL
        /\ poll_reason \in {"error", "timeout"} =>
               /\ jpc = "returned" /\ upload_ret = NULL
               /\ "publish" \notin UploadSteps
        /\ ("publish" \in UploadSteps /\ media_id = NULL) =>
               jpc = "returned" /\ upload_ret = NULL
        /\ upload_ret # NULL =>
               /\ jpc = "returned"
               /\ up_calls = <<"create", "poll", "publish">>
               /\ container_id \in ContainerIds /\ poll_ret = POLL_TRUE
               /\ upload_ret = media_id /\ media_id \in MediaIds

\* C17 witness: an upload that returned the media id after some polling.
C17_Witness ==
    /\ entry = "upload_video" /\ jpc = "returned"
    /\ upload_ret \in MediaIds
    /\ queries >= 2

C19_FailedReturnsImmediately ==
    last_answer = "FAILED" =>
        /\ jpc = "returned"
        /\ poll_reason = "error"
        /\ poll_ret = PollFailureValue
        /\ queries = n_pending + n_failed + 1
        /\ sleeps = queries - 1
        /\ upload_ret = NULL /\ "publish" \notin UploadSteps

\* C19 witness: the failure status came as the answer to the second query.
C19_Witness == last_answer = "FAILED" /\ queries = 2 /\ sleeps = 1

\* C20: a poller that has slept for max_wait or longer (N sleeps with
\* N * interval >= max_wait, so in particular > max_wait) makes no further
\* query and returns; a return by time-out is a normal return of the failure
\* value, reached with the elapsed time at least max_wait; with max_wait = 0
\* it is reached without any query.
C20_TimeoutIsNormalReturn ==
    /\ (jpc = "poll" /\ sleeps * POLL_INTERVAL >= max_wait) =>
           ENABLED PollTimeout /\ ~ENABLED PollIteration
    /\ poll_reason = "timeout" =>
           /\ jpc = "returned"
           /\ poll_ret = PollFailureValue
           /\ elapsed >= max_wait
           /\ last_answer \notin {"FINISHED", "FAILED"}
    /\ max_wait = 0 => queries = 0
    /\ (jpc = "returned" /\ entry = "poll") =>
           poll_reason \in {"finished", "error", "timeout"}

\* C20 witness: three PENDING answers, then the time-out.
C20_Witness ==
    /\ poll_reason = "timeout" /\ entry = "poll"
    /\ n_pending = 3 /\ queries = 3
    /\ n_pending * POLL_INTERVAL > max_wait

\* ceil(a / b) for b > 0.
CeilDiv(a, b) == (a + b - 1) \div b

\* C21: a query that raises (or gets an HTTP error) does not end the polling:
\* the poller sleeps one interval and polls on with the same max_wait, the
\* interval counting towards the deadline like any other; a FINISHED or FAILED
\* answer that comes after such errors still decides the outcome.
C21_TransientErrorKeepsPolling ==
    /\ [][(jpc = "poll" /\ queries' = queries + 1
             /\ last_answer' \in {"EXC", "HTTP_ERROR"}) =>
            /\ jpc' = "poll" /\ poll_reason' = "none"
            /\ sleeps' = sleeps + 1
            /\ elapsed' >= elapsed + POLL_INTERVAL
            /\ elapsed' <= elapsed + POLL_INTERVAL + MaxLatency
            /\ max_wait' = max_wait]_allvars
    /\ [][queries' = queries + 1 => elapsed < max_wait]_allvars
    /\ [](elapsed >= sleeps * POLL_INTERVAL)
    /\ []((n_failed > 0 /\ last_answer = "FINISHED") =>
            poll_reason = "finished" /\ poll_ret \in PollSuccessValues)
    /\ []((n_failed > 0 /\ last_answer = "FAILED") =>
            poll_reason = "error" /\ poll_ret = PollFailureValue)

\* C21 witness: a query raised, the next one was answered FINISHED.
C21_Witness ==
    /\ n_failed = 1 /\ n_pending = 0 /\ queries = 2
    /\ last_answer = "FINISHED" /\ poll_reason = "finished"

\* C22: the poller terminates whatever the answers are; an iteration that
\* does not return sleeps once and advances the time by at least one
\* interval; no query starts once the elapsed time has reached max_wait; when
\* the queries took no time at most ceil(max_wait / interval) of them are made.
C22_BoundedWait ==
    /\ (jpc = "poll") ~> (jpc # "poll")
    /\ <>(jpc = "returned")
    /\ [][(jpc = "poll" /\ jpc' = "poll" /\ queries' # queries) =>
            /\ sleeps' = sleeps + 1
            /\ elapsed' >= elapsed + POLL_INTERVAL]_allvars
    /\ [][queries' # queries => elapsed < max_wait /\ queries' = queries + 1]_allvars
    /\ [](elapsed = sleeps * POLL_INTERVAL =>
            queries <= CeilDiv(max_wait, POLL_INTERVAL))

\* C22 witness: every query raised, none took any time, and the poller
\* returned after ceil(max_wait / interval) = 3 of them.
C22_Witness ==
    /\ jpc = "returned" /\ poll_reason = "timeout"
    /\ n_failed = queries /\ queries = 3
    /\ elapsed = sleeps * POLL_INTERVAL
    /\ queries = CeilDiv(max_wait, POLL_INTERVAL)

C29_BoundedRetries ==
    /\ retry <= 3 /\ yt_failures <= 4
    /\ yt_waits = SubSeq(<<2, 4, 8>>, 1, Min(yt_failures, 3))
    /\ (ypc = "returned" /\ yt_failures > 0) => yt_failures = 4 /\ video_id = NULL
    /\ (yt_failures \in 1..3) => ypc = "chunk"
    /\ video_id # NULL => "id" \in DOMAIN response.body /\ video_id = response.body["id"]

(* --------------------- claims about video generation ------------------- *)

\* C30: whenever the remote job of a scene is rejected, fails, times out,
\* raises, or its download fails, the default clip is created for the scene, so
\* a scene yields no clip only if the default clip creation failed.
C30_RemoteFailureFallsBack ==
    \A k \in 1..Len(scene_log) :
        /\ (scene_log[k].remote # "none" /\ ~scene_log[k].downloaded) =>
               scene_log[k].default
        /\ scene_log[k].path = NoPath => scene_log[k].default

\* C24: no file is written twice in one call of generate_video_from_script:
\* the clips of the scenes and the concatenated video have pairwise distinct
\* paths.
C24_NoPathWrittenTwice ==
    \A a, b \in 1..Len(written) : a # b => written[a].path # written[b].path

(* --------------------- claims about artifact names --------------------- *)

\* C23: two runs never write the same artifact path: files written by
\* different runs have different paths.
C23_UniquePerRun ==
    \A a, b \in artifacts : a.run # b.run => a.path # b.path

(* ------------------ claims about the collaborators --------------------- *)

\* C25: none of the six methods the orchestrator calls raises: an error at
\* any statement of its body is caught by the method's own handler, and the
\* method returns None.
C25_CollaboratorsNeverRaise ==
    /\ bpc # "raised" /\ braised = NoError
    /\ (bpc = "returned" /\ bstep < Len(TryBody(collab))) =>
           bcaught # NoError /\ bret = NULL

\* C25 witness: the scraper was given an invalid URL, raised ValueError at its
\* first statement, and returned None.
C25_Witness ==
    /\ collab = "extract_product_info" /\ fault_at = 1
    /\ fault_err.cls = "ValueError"
    /\ bpc = "returned" /\ bcaught = fault_err /\ bret = NULL

(* --------------------------- claims about main() ----------------------- *)

\* C26: no exception leaves main(): an error raised by the constructor (the
\* required keys missing) or during the run is caught and a line reporting it
\* is printed, and main() returns; when the typed line is empty or white space
\* only, main() returns without calling process_coupang_link.
C26_MainNeverCrashes ==
    /\ mpc # "crashed" /\ m_raised = NoError
    /\ m_caught # NoError =>
           /\ mpc = "returned"
           /\ printed[Len(printed)] \in {"interrupted", "error: " \o Str(m_caught)}
    /\ (~ValidateKeys(env_keys) /\ mpc # "construct") =>
           /\ mpc = "returned" /\ m_caught = MissingKeysError
           /\ processed = 0
    /\ (\A i \in 1..Len(typed) : typed[i] \in Whitespace) => processed = 0
    /\ processed <= 1

\* C26 witness: the required keys are missing, the constructor's ValueError
\* was caught and reported, and main() returned.
C26_Witness ==
    /\ ~ValidateKeys(env_keys)
    /\ mpc = "returned" /\ m_caught = MissingKeysError
    /\ printed = <<"error: " \o Str(MissingKeysError)>>

(* ------------------------ claims about the log ------------------------- *)

Range(seq) == {seq[i] : i \in 1..Len(seq)}

IsStageStart(line) == \E stage \in StageNames : line = StageStartLine(stage)

IsErrorBy(line, by) == line.level = "error" /\ line.by = by

ErrorLinesBy(by) == SelectSeq(log, LAMBDA line : IsErrorBy(line, by))

\* The stages whose start line has been logged, in the order of the lines.
StagesStarted == SelectSeq(log, IsStageStart)

\* C28 as stated: every stage has an info line at its start and one at its
\* end, so the start lines of two stages are never adjacent in the log; and a
\* failed run has exactly one error line.
C28_StartAndEndLinePerStage ==
    /\ \A i \in 1..(Len(log) - 1) :
         ~(IsStageStart(log[i]) /\ IsStageStart(log[i + 1]))
    /\ (pc = "done" /\ ~result.success) =>
         Len(SelectSeq(log, LAMBDA line : line.level = "error")) = 1

\* C28, amended: the orchestrator logs one info line at the start of each
\* stage, in the order of the stages, and no stage is invoked without it; a
\* failed run ends with exactly one error line of process_coupang_link, which
\* carries the error message of the result; _compose_final_video adds an error
\* line of its own exactly when it caught an exception; a successful run ends
\* with the info line of main.py:120 and has no error line of the handler.
C28_StartLinePerStage ==
    /\ StagesStarted = [i \in 1..Len(StagesStarted) |-> StageStartLine(StageOrder[i])]
    /\ \A i \in 1..Len(calls) :
         calls[i] \in StageNames => StageStartLine(calls[i]) \in Range(log)
    /\ pc \in StageNames =>
         /\ Len(StagesStarted) = IndexOf(pc) - 1
         /\ ErrorLinesBy("process_coupang_link") = <<>>
    /\ (pc = "done" /\ ~result.success) =>
         /\ ErrorLinesBy("process_coupang_link") = <<log[Len(log)]>>
         /\ log[Len(log)].text = "error while processing: " \o result.error
         /\ StagesStarted[Len(StagesStarted)] = StageStartLine(failed.stage)
    /\ (pc = "done" /\ result.success) =>
         /\ ErrorLinesBy("process_coupang_link") = <<>>
         /\ log[Len(log)] = LogInfo("process_coupang_link", "all processing done!")
         /\ Len(StagesStarted) = Len(StageOrder)
    /\ Len(ErrorLinesBy("_compose_final_video")) = IF comp.error # NoError THEN 1 ELSE 0

\* C28 witness: a run that failed in the composition, with the compositor's
\* error line followed by the handler's.
C28_Witness ==
    /\ pc = "done" /\ ~result.success /\ failed.stage = "composite"
    /\ Len(ErrorLinesBy("_compose_final_video")) = 1
    /\ Len(ErrorLinesBy("process_coupang_link")) = 1
    /\ IsStageStart(log[Len(log) - 2])

(* ----------------- claims about generate_video_from_script ------------- *)

\* The entries of the scenes that yielded a clip, in scene order.
ProducedScenes == SelectSeq(scene_log, LAMBDA entry_ : entry_.path # NoPath)

\* The paths of those clips, in scene order.
ProducedPaths == [k \in 1..Len(ProducedScenes) |-> ProducedScenes[k].path]

\* The call ended in the handler because concatenate_videoclips or
\* write_videofile raised: every scene was gone through and every clip opened.
ConcatenationFailed ==
    /\ gpc = "returned" /\ gen_caught # NoError
    /\ scene_idx = Len(scenes)
    /\ video_clips = ProducedPaths /\ video_clips # <<>>

\* C31: scenes without a clip are skipped: when the call has returned, the
\* clips that were concatenated are those of the scenes that yielded one, in
\* scene order, and None was returned exactly when no scene yielded a clip or
\* the concatenation or the writing raised.
C31_SkipsFailedScenes ==
    gpc = "returned" =>
        /\ gen_ret # NoPath => video_clips = ProducedPaths
        /\ gen_ret = NoPath <=> (ProducedScenes = <<>> \/ ConcatenationFailed)

====
